---- MODULE Spec2Model ----
(***************************************************************************)
(* Model of giotto/time_series/embedding.py: the SlidingWindow and         *)
(* TakensEmbedding estimators.  One estimator instance is modelled; its    *)
(* class and hyperparameters are fixed at construction (Init), and the     *)
(* actions are the calls fit / transform / resample made on it (Spec).     *)
(* SpecFNN applies the static method _false_nearest_neighbors on its own.  *)
(* Inside fit, the mutual-information scores and the false-neighbour       *)
(* counts are the scorers' answers, drawn from ScoreValues / CountValues.  *)
(*                                                                         *)
(* Arrays are TLA+ sequences: Python index i is TLA+ index i + 1.          *)
(* An n x 1 column array is modelled as the sequence of its n entries.     *)
(***************************************************************************)
EXTENDS Integers, Sequences, FiniteSets

\* ---------------------------------------------------------------- bounds
MaxLen == 6
MaxFitLen == 7
MaxWidth == 2
MaxStride == 2
MaxDelay == 2
MaxDim == 3
MaxFnnLen == 4

\* Sample values of the series handed to transform / resample.
Values == {0, 1}
\* Mutual-information scores the estimator may return (sklearn oracle).
ScoreValues == {0, 1}
\* False-nearest-neighbour counts fit may see.
CountValues == {0, 2}
\* Sample values of the series handed to _false_nearest_neighbors.
FnnValues == {0, 1, 12, 200}

VARIABLES
    cls,              \* "SlidingWindow" | "TakensEmbedding"
    width,            \* SlidingWindow.width
    stride,           \* .stride (both classes)
    parameters_type,  \* TakensEmbedding.parameters_type
    time_delay,       \* TakensEmbedding.time_delay
    dimension,        \* TakensEmbedding.dimension
    attrs,            \* names of the fitted attributes the instance has
    time_delay_,      \* value of time_delay_ (meaningful iff in attrs)
    dimension_,       \* value of dimension_  (meaningful iff in attrs)
    fit_succeeded,    \* history: some fit call has returned normally
    td_from_failed,   \* history: time_delay_ was written by a fit call that raised
    last              \* the last call: its inputs, locals and outcome

vars == <<cls, width, stride, parameters_type, time_delay, dimension, attrs,
          time_delay_, dimension_, fit_succeeded, td_from_failed, last>>

\* ------------------------------------------------------ Python / numpy helpers
SeriesOver(V, lo, hi) == UNION {[1..n -> V] : n \in lo..hi}

Abs(x) == IF x < 0 THEN -x ELSE x

\* Normalisation of a slice bound for a positive step.
PyBound(idx, len) ==
    IF idx < 0 THEN (IF idx + len < 0 THEN 0 ELSE idx + len)
    ELSE (IF idx > len THEN len ELSE idx)

\* s[start:stop:step] with step >= 1.
PySlice(s, start, stop, step) ==
    LET b == PyBound(start, Len(s))
        e == PyBound(stop, Len(s))
        cnt == IF e > b THEN (e - b - 1) \div step + 1 ELSE 0
    IN  [k \in 1..cnt |-> s[b + (k - 1) * step + 1]]

\* np.flip on a one-dimensional array (or an n x 1 column).
Flip(s) == [i \in 1..Len(s) |-> s[Len(s) + 1 - i]]

\* np.flip on a two-dimensional array: every axis is reversed.
Flip2(rows) == [i \in 1..Len(rows) |-> Flip(rows[Len(rows) + 1 - i])]

\* np.roll(a, shift): result[i] = a[(i - shift) mod n].
Roll(s, shift) ==
    [i \in 1..Len(s) |-> s[((i - 1 - shift) % Len(s)) + 1]]

\* np.stack raises ValueError on an empty list and on arrays of unequal shape.
StackFails(list) ==
    \/ list = <<>>
    \/ \E i, j \in 1..Len(list) : Len(list[i]) # Len(list[j])

\* list.index(min(list)) + 1, 1-based position of the first minimum.
IndexOfMin(list) ==
    CHOOSE i \in 1..Len(list) :
        /\ \A j \in 1..Len(list) : list[i] <= list[j]
        /\ \A j \in 1..(i - 1) : list[j] > list[i]

\* ------------------------------------------------------------ SlidingWindow
ValidParamsSW == width >= 1 /\ stride >= 1

NWindows(n_samples, w, s) == (n_samples - w - 1) \div s + 1

\* Faulty variant of SliceWindows: windows anchored at the first entry, not the last.
SliceWindowsFromStart(n_samples, w, s) ==
    LET n_windows == NWindows(n_samples, w, s)
    IN  [k \in 1..n_windows |-> <<(k - 1) * s, (k - 1) * s + w + 1>>]

SliceWindows(n_samples, w, s) ==
    LET n_windows == NWindows(n_samples, w, s)
    IN  [k \in 1..n_windows |->
            LET i == n_windows - k
            IN  <<n_samples - i * s - w - 1, n_samples - i * s>>]

WindowsOf(X, window_slices) ==
    [k \in 1..Len(window_slices) |->
        PySlice(X, window_slices[k][1], window_slices[k][2], 1)]

\* Faulty variant of ResampleSW: the slice taken without reversing the target.
ResampleSWNoFlip(y, w, s) == PySlice(y, 0, -w, s)

ResampleSW(y, w, s) == Flip(PySlice(Flip(y), 0, -w, s))

\* ---------------------------------------------------------- TakensEmbedding
ValidParamsTE ==
    /\ parameters_type \in {"fixed", "search"}
    /\ time_delay >= 1
    /\ dimension >= 1
    /\ stride >= 1

\* Faulty variant of NPoints: division truncating towards zero instead of flooring.
NPointsTruncDiv(n_samples, td, dim, s) ==
    LET q == n_samples - td * (dim - 1) - 1
    IN  (IF q < 0 THEN -((-q) \div s) ELSE q \div s) + 1

NPoints(n_samples, td, dim, s) == (n_samples - td * (dim - 1) - 1) \div s + 1

EmbedPoints(X, td, dim, s) ==
    LET n_points == NPoints(Len(X), td, dim, s)
        Xf == Flip(X)
    IN  [k \in 1..n_points |->
            PySlice(Xf, (k - 1) * s, (k - 1) * s + td * dim, td)]

EmbedFails(X, td, dim, s) == StackFails(EmbedPoints(X, td, dim, s))

\* Faulty variant of Embed: the stacked points returned without the final np.flip.
EmbedNoFlip(X, td, dim, s) == EmbedPoints(X, td, dim, s)

Embed(X, td, dim, s) == Flip2(EmbedPoints(X, td, dim, s))

ResampleTE(y, td, dim, s) ==
    LET final_index == -td * (dim - 1)
    IN  Flip(PySlice(Flip(y), 0, final_index, s))

\* ------------------------------------------------- TakensEmbedding.fit search
\* Python list access list[j], j counted from 0.
ListAt(list, j) == list[j + 1]

\* A series of n samples; fit reads its values only through the two scorers.
ConstSeries(n) == [i \in 1..n |-> 0]

\* _false_nearest_neighbors raises when _embed cannot stack any point, and
\* when kneighbors is asked for 2 neighbours among fewer than 2 points.
FnnCallFails(n, td, dim) ==
    \/ EmbedFails(ConstSeries(n), td, dim, 1)
    \/ Len(EmbedPoints(ConstSeries(n), td, dim, 1)) < 2

\* variation_list: entry k (from 1) is the score of dim = k + 1, kept as the
\* exact fraction <<numerator, denominator>>.
VariationList(n_false_nbhrs_list, dim_bound) ==
    [k \in 1..(dim_bound - 1) |->
        LET dim == k + 1
        IN  <<Abs(ListAt(n_false_nbhrs_list, dim - 1)
                  - 2 * ListAt(n_false_nbhrs_list, dim)
                  + ListAt(n_false_nbhrs_list, dim + 1)),
              (ListAt(n_false_nbhrs_list, dim) + 1) * dim>>]

FracLeq(p, q) == p[1] * q[2] <= q[1] * p[2]

\* list.index(min(list)) + 1 for a list of fractions.
IndexOfMinFrac(list) ==
    CHOOSE i \in 1..Len(list) :
        /\ \A j \in 1..Len(list) : FracLeq(list[i], list[j])
        /\ \A j \in 1..(i - 1) : ~FracLeq(list[j], list[i])

\* ------------------------------------------- _false_nearest_neighbors
RECURSIVE SumSeq(_)
SumSeq(s) == IF s = <<>> THEN 0 ELSE Head(s) + SumSeq(Tail(s))

\* Squared Euclidean distance of two points.
Dist2(p, q) == SumSeq([k \in 1..Len(p) |-> (p[k] - q[k]) * (p[k] - q[k])])

\* NearestNeighbors(n_neighbors=2).kneighbors: column 1 holds, for each
\* point, a nearest other point; among coincident points the oracle may
\* also list the point itself there.  Ties are the oracle's choice.
NearestCands(E, p) ==
    LET others == (1..Len(E)) \ {p}
        dmin == CHOOSE d \in {Dist2(E[p], E[q]) : q \in others} :
                    \A q \in others : d <= Dist2(E[p], E[q])
    IN  {q \in others : Dist2(E[p], E[q]) = dmin}
            \cup (IF dmin = 0 THEN {p} ELSE {})

RECURSIVE NeighborChoicesUpTo(_, _)
NeighborChoicesUpTo(E, k) ==
    IF k = 0 THEN {<<>>}
    ELSE {Append(f, q) : f \in NeighborChoicesUpTo(E, k - 1),
                         q \in NearestCands(E, k)}

\* Every indices[:, 1] the oracle may return for the point cloud E.
NeighborChoices(E) == NeighborChoicesUpTo(E, Len(E))

\* d < 2.0 * np.std(X), for d >= 0 given by its square d2.
BelowEpsilon(d2, X) ==
    LET n == Len(X)
        sx == SumSeq(X)
        sxx == SumSeq([i \in 1..n |-> X[i] * X[i]])
    IN  d2 * n * n < 4 * (n * sxx - sx * sx)

\* tolerance literal of _false_nearest_neighbors.
Tolerance == 10

\* nbr[p] is indices[p - 1, 1] + 1.  Distances are kept squared.
\* The difference of the two rolled columns has shape (L, 1) and the
\* distance slice shape (L,): numpy broadcasts their quotient, and the
\* product of the three criteria, to an L x L array, which np.sum adds up.
FalseNearestNeighbors(X, td, dim, s, nbr) ==
    LET X_embedded == Embed(X, td, dim, s)
        m == Len(X_embedded)
        distance2 == [p \in 1..m |-> Dist2(X_embedded[p], X_embedded[nbr[p]])]
        XNeighbor == [p \in 1..m |-> X[nbr[p]]]
        dim_by_delay == -dim * td
        dslice == PySlice(distance2, 0, dim_by_delay, 1)
        own == PySlice(Roll(X, dim_by_delay), Len(X) - m, dim_by_delay, 1)
        nb == PySlice(Roll(XNeighbor, dim_by_delay), 0, dim_by_delay, 1)
        diff == [i \in 1..Len(own) |-> Abs(own[i] - nb[i])]
    IN  Cardinality({ij \in (1..Len(diff)) \X (1..Len(dslice)) :
            /\ dslice[ij[2]] > 0
            /\ diff[ij[1]] * diff[ij[1]] > Tolerance * Tolerance * dslice[ij[2]]
            /\ BelowEpsilon(dslice[ij[2]], X)})

\* Faulty variant of CheckIsFitted: one existing attribute is enough.
CheckIsFittedAny(names) == names \cap attrs # {}

\* check_is_fitted(self, attributes): every named attribute must exist.
CheckIsFitted(names) == names \subseteq attrs

\* ------------------------------------------------------------------- calls
NoCall ==
    [op |-> "none", X |-> <<>>, n |-> 0, res |-> "none", out |-> <<>>,
     slices |-> <<>>, mi |-> <<>>, fnn |-> <<>>,
     td |-> 0, dim |-> 0, nbr |-> <<>>, count |-> 0]

Call(op, X, res, out) == [NoCall EXCEPT !.op = op, !.X = X, !.n = Len(X),
                                        !.res = res, !.out = out]

Params == <<cls, width, stride, parameters_type, time_delay, dimension>>
Fitted == <<attrs, time_delay_, dimension_, fit_succeeded, td_from_failed>>

Init ==
    /\ cls \in {"SlidingWindow", "TakensEmbedding"}
    /\ stride \in 0..MaxStride
    /\ IF cls = "SlidingWindow"
       THEN /\ width \in 0..MaxWidth
            /\ parameters_type = "search"
            /\ time_delay = 1
            /\ dimension = 1
       ELSE /\ width = 0
            /\ parameters_type \in {"fixed", "search", "other"}
            /\ time_delay \in 0..MaxDelay
            /\ dimension \in 0..MaxDim
    /\ attrs = {}
    /\ time_delay_ = 0
    /\ dimension_ = 0
    /\ fit_succeeded = FALSE
    /\ td_from_failed = FALSE
    /\ last = NoCall

\* The caller is sequential: a call is made only once the previous call's
\* outcome has been taken (Return).
Idle == last.op = "none"

SW_Fit ==
    /\ Idle
    /\ cls = "SlidingWindow"
    /\ \E n \in 0..MaxLen :
        IF ValidParamsSW /\ n >= 1
        THEN /\ attrs' = attrs \cup {"_is_fitted"}
             /\ fit_succeeded' = TRUE
             /\ last' = [NoCall EXCEPT !.op = "fit", !.n = n, !.res = "ok"]
        ELSE /\ UNCHANGED <<attrs, fit_succeeded>>
             /\ last' = [NoCall EXCEPT !.op = "fit", !.n = n,
                                       !.res = "ValueError"]
    /\ UNCHANGED <<Params, time_delay_, dimension_, td_from_failed>>

SW_Transform ==
    /\ Idle
    /\ cls = "SlidingWindow"
    /\ \E X \in SeriesOver(Values, 0, MaxLen) :
        last' =
            IF ~CheckIsFitted({"_is_fitted"})
            THEN Call("transform", X, "NotFittedError", <<>>)
            ELSE IF Len(X) < 1
            THEN Call("transform", X, "ValueError", <<>>)
            ELSE LET window_slices == SliceWindows(Len(X), width, stride)
                     windows == WindowsOf(X, window_slices)
                 IN  IF StackFails(windows)
                     THEN [Call("transform", X, "ValueError", <<>>)
                              EXCEPT !.slices = window_slices]
                     ELSE [Call("transform", X, "ok", windows)
                              EXCEPT !.slices = window_slices]
    /\ UNCHANGED <<Params, Fitted>>

SW_Resample ==
    /\ Idle
    /\ cls = "SlidingWindow"
    /\ \E y \in SeriesOver(Values, 0, MaxLen) :
        last' =
            IF ~CheckIsFitted({"_is_fitted"})
            THEN Call("resample", y, "NotFittedError", <<>>)
            ELSE Call("resample", y, "ok", ResampleSW(y, width, stride))
    /\ UNCHANGED <<Params, Fitted>>

TE_Fit ==
    /\ Idle
    /\ cls = "TakensEmbedding"
    /\ \E n \in 0..MaxFitLen :
        IF ~ValidParamsTE \/ n < 1
        THEN /\ UNCHANGED Fitted
             /\ last' = [NoCall EXCEPT !.op = "fit", !.n = n,
                                       !.res = "ValueError"]
        ELSE IF parameters_type # "search"
        THEN /\ time_delay_' = time_delay
             /\ dimension_' = dimension
             /\ attrs' = attrs \cup {"time_delay_", "dimension_"}
             /\ fit_succeeded' = TRUE
             /\ td_from_failed' = FALSE
             /\ last' = [NoCall EXCEPT !.op = "fit", !.n = n, !.res = "ok"]
        ELSE \E mutual_information_list \in [1..time_delay -> ScoreValues] :
             LET mi == mutual_information_list
                 td == IndexOfMin(mi)
                 fnn_fails == \E dim \in 1..(dimension + 2) :
                                  FnnCallFails(n, td, dim)
             IN  /\ time_delay_' = td
                 /\ IF fnn_fails
                    THEN /\ attrs' = attrs \cup {"time_delay_"}
                         /\ td_from_failed' = TRUE
                         /\ UNCHANGED <<dimension_, fit_succeeded>>
                         /\ last' = [NoCall EXCEPT !.op = "fit", !.n = n,
                                         !.res = "ValueError", !.mi = mi]
                    ELSE \E n_false_nbhrs_list \in
                                [1..(dimension + 2) -> CountValues] :
                         LET fnn == n_false_nbhrs_list
                             variation_list == VariationList(fnn, dimension)
                         IN  IF variation_list = <<>>
                             THEN /\ attrs' = attrs \cup {"time_delay_"}
                                  /\ td_from_failed' = TRUE
                                  /\ UNCHANGED <<dimension_, fit_succeeded>>
                                  /\ last' = [NoCall EXCEPT !.op = "fit",
                                         !.n = n, !.res = "ValueError",
                                         !.mi = mi, !.fnn = fnn]
                             ELSE /\ dimension_' =
                                        (IndexOfMinFrac(variation_list) - 1) + 2
                                  /\ attrs' = attrs
                                        \cup {"time_delay_", "dimension_"}
                                  /\ fit_succeeded' = TRUE
                                  /\ td_from_failed' = FALSE
                                  /\ last' = [NoCall EXCEPT !.op = "fit",
                                         !.n = n, !.res = "ok",
                                         !.mi = mi, !.fnn = fnn]
    /\ UNCHANGED Params

TE_Transform ==
    /\ Idle
    /\ cls = "TakensEmbedding"
    /\ \E X \in SeriesOver(Values, 0, MaxLen) :
        last' =
            IF ~CheckIsFitted({"time_delay_", "dimension_"})
            THEN Call("transform", X, "NotFittedError", <<>>)
            ELSE IF Len(X) < 1
            THEN Call("transform", X, "ValueError", <<>>)
            ELSE IF EmbedFails(X, time_delay_, dimension_, stride)
            THEN Call("transform", X, "ValueError", <<>>)
            ELSE Call("transform", X, "ok",
                      Embed(X, time_delay_, dimension_, stride))
    /\ UNCHANGED <<Params, Fitted>>

TE_Resample ==
    /\ Idle
    /\ cls = "TakensEmbedding"
    /\ \E y \in SeriesOver(Values, 0, MaxLen) :
        last' =
            IF ~CheckIsFitted({"time_delay_", "dimension_"})
            THEN Call("resample", y, "NotFittedError", <<>>)
            ELSE Call("resample", y, "ok",
                      ResampleTE(y, time_delay_, dimension_, stride))
    /\ UNCHANGED <<Params, Fitted>>

\* The caller takes the outcome (the returned array or the raised error).
Return ==
    /\ ~Idle
    /\ last' = NoCall
    /\ UNCHANGED <<Params, Fitted>>

Next ==
    \/ SW_Fit \/ SW_Transform \/ SW_Resample
    \/ TE_Fit \/ TE_Transform \/ TE_Resample
    \/ Return

Spec == Init /\ [][Next]_vars
\* ---------------------------------- _false_nearest_neighbors on its own
\* The static method applied to a series, a delay and a dimension with
\* stride 1, as fit calls it, under every answer of the neighbour oracle.
InitFNN ==
    /\ cls = "TakensEmbedding"
    /\ width = 0
    /\ stride = 1
    /\ parameters_type = "search"
    /\ time_delay = 1
    /\ dimension = 1
    /\ attrs = {}
    /\ time_delay_ = 0
    /\ dimension_ = 0
    /\ fit_succeeded = FALSE
    /\ td_from_failed = FALSE
    /\ last = NoCall

FNN_Call ==
    /\ Idle
    /\ \E X \in SeriesOver(FnnValues, 1, MaxFnnLen) :
       \E td \in 1..MaxDelay :
       \E dim \in 1..MaxDim :
        IF FnnCallFails(Len(X), td, dim)
        THEN last' = [Call("fnn", X, "ValueError", <<>>)
                         EXCEPT !.td = td, !.dim = dim]
        ELSE \E nbr \in NeighborChoices(Embed(X, td, dim, 1)) :
                last' = [Call("fnn", X, "ok", <<>>)
                            EXCEPT !.td = td, !.dim = dim, !.nbr = nbr,
                                   !.count = FalseNearestNeighbors(X, td, dim, 1, nbr)]
    /\ UNCHANGED <<Params, Fitted>>

NextFNN == FNN_Call \/ Return

SpecFNN == InitFNN /\ [][NextFNN]_vars
\* =================================================================== claims
AcceptedCall(op) ==
    /\ last.op = op
    /\ last.res \in {"ok", "ValueError"}

\* C1: for n >= width + 1, _slice_windows returns (n - width - 1) div stride
\* + 1 pairs, each with 0 <= start and end - start = width + 1, consecutive
\* starts differ by exactly stride, and the last pair ends at n.
C1_SliceWindows ==
    (cls = "SlidingWindow" /\ AcceptedCall("transform")
        /\ last.n >= width + 1)
    => LET ws == last.slices
           k == Len(ws)
       IN  /\ k = (last.n - width - 1) \div stride + 1
           /\ \A i \in 1..k : /\ 0 <= ws[i][1]
                              /\ ws[i][2] - ws[i][1] = width + 1
           /\ \A i \in 1..(k - 1) : ws[i + 1][1] - ws[i][1] = stride
           /\ ws[k][2] = last.n

\* C1 witness: several windows, with initial entries lost to the remainder.
C1_Witness ==
    /\ cls = "SlidingWindow" /\ AcceptedCall("transform")
    /\ last.res = "ok"
    /\ Len(last.slices) >= 2
    /\ (last.n - width - 1) % stride # 0
    /\ last.slices[1][1] > 0

\* C2: for n >= width + 1, SlidingWindow.resample(y) has as many entries as
\* transform produces windows, and its i-th entry from the end is y at the
\* index of the last element of the i-th window from the end.
C2_ResampleSW ==
    (cls = "SlidingWindow" /\ last.op = "resample" /\ last.res = "ok"
        /\ last.n >= width + 1)
    => LET ws == SliceWindows(last.n, width, stride)
           k == Len(last.out)
       IN  /\ k = Len(ws)
           /\ \A i \in 1..k :
                last.out[k + 1 - i] = last.X[(ws[k + 1 - i][2] - 1) + 1]
           /\ last.out[k] = last.X[last.n]

\* C2 witness: a resampled target of several entries taken with stride > 1.
C2_Witness ==
    /\ cls = "SlidingWindow" /\ last.op = "resample" /\ last.res = "ok"
    /\ last.n >= width + 1
    /\ stride >= 2
    /\ Len(last.out) >= 2
    /\ \E i \in 1..Len(last.out) : last.out[i] = 1

\* C3: with fixed parameters and n >= time_delay * (dimension - 1) + 1,
\* transform returns (n - time_delay * (dimension - 1) - 1) div stride + 1
\* points, and the k-th coordinate from the end of the i-th point from the
\* end is the sample at index n - 1 - i * stride - k * time_delay.
C3_Transform ==
    (cls = "TakensEmbedding" /\ parameters_type = "fixed"
        /\ AcceptedCall("transform")
        /\ last.n >= time_delay * (dimension - 1) + 1)
    => LET n == last.n
           k == Len(last.out)
       IN  /\ last.res = "ok"
           /\ k = (n - time_delay * (dimension - 1) - 1) \div stride + 1
           /\ \A i \in 0..(k - 1) :
                /\ Len(last.out[k - i]) = dimension
                /\ \A c \in 0..(dimension - 1) :
                     last.out[k - i][dimension - c] =
                        last.X[(n - 1 - i * stride - c * time_delay) + 1]
           /\ last.out[k][dimension] = last.X[n]

\* C3 witness: several points of dimension >= 2 with delay and stride > 1.
C3_Witness ==
    /\ cls = "TakensEmbedding" /\ parameters_type = "fixed"
    /\ AcceptedCall("transform") /\ last.res = "ok"
    /\ Len(last.out) >= 2
    /\ dimension >= 2 /\ time_delay >= 2 /\ stride >= 2

\* C4: for n >= time_delay_ * (dimension_ - 1) + 1 (dimension_ = 1 included),
\* TakensEmbedding.resample(y) has (n - time_delay_ * (dimension_ - 1) - 1)
\* div stride + 1 entries, and its i-th entry from the end is y at the index
\* of the last coordinate of the i-th embedded point from the end.
C4_ResampleTE ==
    (cls = "TakensEmbedding" /\ last.op = "resample" /\ last.res = "ok"
        /\ last.n >= time_delay_ * (dimension_ - 1) + 1)
    => LET n == last.n
           k == Len(last.out)
       IN  /\ k = (n - time_delay_ * (dimension_ - 1) - 1) \div stride + 1
           /\ \A i \in 0..(k - 1) :
                last.out[k - i] = last.X[(n - 1 - i * stride) + 1]

\* C5: transform / resample before any successful fit raises NotFittedError
\* and returns nothing; after a successful fit it is never rejected as not
\* fitted.
C5_NotFitted ==
    (last.op \in {"transform", "resample"})
    => /\ (~fit_succeeded) => (last.res = "NotFittedError" /\ last.out = <<>>)
       /\ fit_succeeded => last.res # "NotFittedError"

\* C5 witness: a TakensEmbedding whose only fit call failed after writing
\* time_delay_, then asked to transform.
C5_Witness ==
    /\ cls = "TakensEmbedding"
    /\ "time_delay_" \in attrs
    /\ ~fit_succeeded
    /\ last.op = "transform"
    /\ last.res = "NotFittedError"

\* A transform call on a fitted estimator with a series too short for the
\* window or embedding geometry.
TooShortTransform ==
    /\ AcceptedCall("transform")
    /\ \/ cls = "SlidingWindow" /\ last.n < width + 1
       \/ /\ cls = "TakensEmbedding"
          /\ (last.n - time_delay_ * (dimension_ - 1) - 1) \div stride + 1 <= 0

\* C6: a transform on a too-short series raises an error: no (empty, wrapped
\* or corrected) output is returned, and the fitted state is unchanged.
C6_TooShort ==
    [][TooShortTransform'
        => /\ last'.res = "ValueError"
           /\ last'.out = <<>>
           /\ UNCHANGED Fitted]_vars

\* C6 witness: a fitted TakensEmbedding given a non-empty series shorter than
\* one embedded point, where the point count is negative before the + 1.
C6_Witness ==
    /\ TooShortTransform
    /\ cls = "TakensEmbedding"
    /\ last.n >= 1
    /\ (last.n - time_delay_ * (dimension_ - 1) - 1) \div stride + 1 < 0
    /\ last.res = "ValueError"

\* C7: in search mode with valid hyperparameters and a series long enough
\* for every candidate, fit completes, time_delay_ is the smallest delay of
\* minimal mutual information (1 <= time_delay_ <= time_delay), and
\* dimension_ <= dimension.
C7_SearchFit ==
    (cls = "TakensEmbedding" /\ parameters_type = "search" /\ ValidParamsTE
        /\ last.op = "fit"
        /\ last.n >= time_delay * (dimension + 1) + 2)
    => /\ last.res = "ok"
       /\ {"time_delay_", "dimension_"} \subseteq attrs
       /\ 1 <= time_delay_ /\ time_delay_ <= time_delay
       /\ \A t \in 1..time_delay : last.mi[time_delay_] <= last.mi[t]
       /\ \A t \in 1..(time_delay_ - 1) : last.mi[t] > last.mi[time_delay_]
       /\ dimension_ <= dimension

\* v_d <= v_e for v_d = |n_{d-1} - 2 n_d + n_{d+1}| / (n_d + 1) / d.
ClaimedVariationLeq(cnt, d, e) ==
    Abs(cnt[d - 1] - 2 * cnt[d] + cnt[d + 1]) * ((cnt[e] + 1) * e)
        <= Abs(cnt[e - 1] - 2 * cnt[e] + cnt[e + 1]) * ((cnt[d] + 1) * d)

\* C8: in search mode fit sets dimension_ to the smallest d in
\* [2, dimension] minimising v_d = |n_{d-1} - 2 n_d + n_{d+1}| / (n_d + 1) / d,
\* n_d being the false-nearest-neighbour count at dimension d.
C8_DimensionChoice ==
    (cls = "TakensEmbedding" /\ parameters_type = "search"
        /\ last.op = "fit" /\ last.res = "ok")
    => /\ dimension_ \in 2..dimension
       /\ \A e \in 2..dimension :
            ClaimedVariationLeq(last.fnn, dimension_, e)
       /\ \A e \in 2..(dimension_ - 1) :
            ~ClaimedVariationLeq(last.fnn, e, dimension_)

\* Python index of the sample dimension * time_delay after the anchor (the
\* last coordinate) of embedded point p (p counted from 1, stride 1).
ExtraIndex(p, td, dim) == (p - 1) + (dim - 1) * td + dim * td

\* The points counted by the claimed rule: own distance d_p with d_p > 0,
\* d_p < 2 stddev, |extra_p - extra_nbr(p)| / d_p > 10.
ClaimedFalseNeighbors(X, td, dim, nbr) ==
    LET E == Embed(X, td, dim, 1)
    IN  {p \in 1..Len(E) :
            /\ ExtraIndex(p, td, dim) < Len(X)
            /\ ExtraIndex(nbr[p], td, dim) < Len(X)
            /\ LET d2 == Dist2(E[p], E[nbr[p]])
                   gap == Abs(X[ExtraIndex(p, td, dim) + 1]
                              - X[ExtraIndex(nbr[p], td, dim) + 1])
               IN  /\ d2 > 0
                   /\ BelowEpsilon(d2, X)
                   /\ gap * gap > Tolerance * Tolerance * d2}

\* C9: _false_nearest_neighbors returns the number of points p, among those
\* with a defined extra coordinate, with d_p > 0, d_p < 2 stddev and
\* |extra_p - extra_nbr(p)| / d_p > 10; each point is counted at most once,
\* so the result never exceeds the number of embedded points.
C9_FalseNeighborCount ==
    (last.op = "fnn" /\ last.res = "ok")
    => LET E == Embed(last.X, last.td, last.dim, 1)
       IN  /\ last.count <= Len(E)
           /\ (\A p \in 1..Len(E) :
                  ExtraIndex(p, last.td, last.dim) < Len(last.X)
                  => ExtraIndex(last.nbr[p], last.td, last.dim) < Len(last.X))
              => last.count = Cardinality(
                    ClaimedFalseNeighbors(last.X, last.td, last.dim, last.nbr))

\* C10: whenever both time_delay_ and dimension_ are stored (so transform
\* and resample run), both were written by the same successful fit call:
\* time_delay_ never comes from a fit call that failed.
C10_PairFromOneFit ==
    CheckIsFitted({"time_delay_", "dimension_"}) => ~td_from_failed
====
